---- MODULE Spec2Model ----
(***************************************************************************)
(* A model of scqubits' object persistence core (scqubits/core/storage.py):*)
(* the DataStore container, its typed subclass SpectrumData, the write     *)
(* path _serialize and the two read paths set_from_data and                *)
(* _init_from_data.                                                        *)
(*                                                                         *)
(* Python values are records of one shape, so that any two can be          *)
(* compared: kind names the Python type, str holds a string, shape and     *)
(* flat hold an array (row-major, as numpy stores it), items holds an      *)
(* ordered dict as a sequence of [key, val] entries (insertion order, as   *)
(* Python's dict keeps it).  An object is its class name and its __dict__. *)
(*                                                                         *)
(* Dataset names range over FieldNames and FileNames: identifiers of data  *)
(* fields, and the reserved constructor parameter "param_name".  The       *)
(* bookkeeping attribute name "data_names" itself is not among them.       *)
(***************************************************************************)
EXTENDS Integers, Sequences, FiniteSets, TLC

VARIABLES store, file, calls, result, error, last, fresh, supplied

vars == <<store, file, calls, result, error, last, fresh, supplied>>

(***************************************************************************)
(* Bounds of the model.                                                    *)
(***************************************************************************)
MaxRows == 2
MaxCols == 3
MaxGap == 3
MaxEnergy == 6

(***************************************************************************)
(* Python values.                                                          *)
(***************************************************************************)
Value(k, s, sh, fl, it) == [kind |-> k, str |-> s, shape |-> sh, flat |-> fl, items |-> it]

PyNone == Value("None", "", <<>>, <<>>, <<>>)

PyStr(s) == Value("str", s, <<>>, <<>>, <<>>)

PyInt(n) == Value("int", "", <<>>, <<n>>, <<>>)

PyList(fl) == Value("list", "", <<Len(fl)>>, fl, <<>>)

NdArray(sh, fl) == Value("ndarray", "", sh, fl, <<>>)

PyDict(it) == Value("dict", "", <<>>, <<>>, it)

Entry(k, v) == [key |-> k, val |-> v]

\* kwargs.keys(): a view of the names of a dict, in insertion order
KeysView(d) == Value("dict_keys", "", <<>>, <<>>, [i \in 1..Len(d) |-> Entry(d[i].key, PyNone)])

DictHas(d, k) == \E i \in 1..Len(d) : d[i].key = k

DictGet(d, k) == d[CHOOSE i \in 1..Len(d) : d[i].key = k].val

\* d[k] = v: an existing key keeps its place, a new key goes last
DictSet(d, k, v) ==
    IF DictHas(d, k)
    THEN [i \in 1..Len(d) |-> IF d[i].key = k THEN Entry(k, v) ELSE d[i]]
    ELSE Append(d, Entry(k, v))

DictKeys(d) == [i \in 1..Len(d) |-> d[i].key]

KeySet(d) == {d[i].key : i \in 1..Len(d)}

RECURSIVE DictUpdate(_, _)
\* d.update(e)
DictUpdate(d, e) ==
    IF e = <<>> THEN d
    ELSE DictUpdate(DictSet(d, Head(e).key, Head(e).val), Tail(e))

\* d after d.pop(k)
DictPop(d, k) ==
    LET Keep(e) == e.key # k IN SelectSeq(d, Keep)

\* {name: data_list[i] for i, name in enumerate(name_list)}
RECURSIVE DictZip(_, _)
DictZip(names, data) ==
    IF names = <<>> THEN <<>>
    ELSE LET n == Len(names)
         IN  DictSet(DictZip(SubSeq(names, 1, n - 1), SubSeq(data, 1, n - 1)),
                     names[n], data[n])

(***************************************************************************)
(* Objects.                                                                *)
(***************************************************************************)
NoObj == [cls |-> "None", dict |-> <<>>]

Outcome(e, o) == [err |-> e, obj |-> o]

HasAttr(o, k) == DictHas(o.dict, k)

GetAttr(o, k) == DictGet(o.dict, k)

\* setattr as a map that moves a rebound key to the end would do it
SetAttr_moves(o, k, v) == [o EXCEPT !.dict = Append(DictPop(o.dict, k), Entry(k, v))]

SetAttr(o, k, v) == [o EXCEPT !.dict = DictSet(o.dict, k, v)]

RECURSIVE SetAttrs(_, _)
\* for key, value in d.items(): setattr(o, key, value)
SetAttrs(o, d) ==
    IF d = <<>> THEN o
    ELSE SetAttrs(SetAttr(o, Head(d).key, Head(d).val), Tail(d))

\* the names in self.data_names, in order
DataNames(o) == DictKeys(GetAttr(o, "data_names").items)

DataNameSet(o) == KeySet(GetAttr(o, "data_names").items)

(***************************************************************************)
(* Helpers of scqubits.utils.misc, which storage.py imports.               *)
(***************************************************************************)
RECURSIVE process_metadata(_)
\* system_params in the flat form the metadata record takes: a plain value
\* keeps its key, a nested mapping is merged into the flat namespace
process_metadata(d) ==
    IF d = <<>> THEN <<>>
    ELSE LET e == Head(d)
             own == IF e.val.kind = "dict" THEN process_metadata(e.val.items)
                    ELSE <<e>>
         IN  DictUpdate(own, process_metadata(Tail(d)))

\* filter(value_not_none, items): the (name, value) pairs whose value is not None
value_not_none(e) == e.val # PyNone

\* the dense array of a value: a scalar is a zero-dimensional array, a list
\* an array of its length, an array itself
convert_to_ndarray(v) ==
    IF v.kind = "ndarray" THEN v ELSE NdArray(v.shape, v.flat)

(***************************************************************************)
(* class DataStore                                                         *)
(***************************************************************************)
\* __init__ with data_names taken from the keys of __dict__ instead of kwargs
DataStoreInit_dictkeys(cls, pn, pv, sp, kwargs) ==
    LET fixed == << Entry("param_name", pn), Entry("param_vals", pv),
                    Entry("system_params", sp) >>
        self == [cls |-> cls,
                 dict |-> Append(fixed, Entry("data_names", KeysView(fixed \o kwargs)))]
    IN  SetAttrs(self, kwargs)

\* DataStore.__init__(self, param_name, param_vals, system_params, **kwargs)
DataStoreInit(cls, pn, pv, sp, kwargs) ==
    LET self == [cls |-> cls,
                 dict |-> << Entry("param_name", pn),
                             Entry("param_vals", pv),
                             Entry("system_params", sp),
                             Entry("data_names", KeysView(kwargs)) >>]
    IN  SetAttrs(self, kwargs)

\* the call DataStore(param_name=..., param_vals=..., system_params=..., **kwargs):
\* Python refuses a keyword that names a parameter already given
NewDataStore(pn, pv, sp, kwargs) ==
    IF KeySet(kwargs) \cap {"self", "param_name", "param_vals", "system_params"} # {}
    THEN Outcome("TypeError", NoObj)
    ELSE Outcome("", DataStoreInit("DataStore", pn, pv, sp, kwargs))

\* DataStore._get_metadata_dict
get_metadata_dict(self) ==
    DictUpdate(<< Entry("param_name", GetAttr(self, "param_name")),
                  Entry("param_vals", GetAttr(self, "param_vals")) >>,
               process_metadata(GetAttr(self, "system_params").items))

\* _get_data_dict without the data_names test: every attribute but the fixed ones
get_data_dict_all(self) ==
    LET Data(e) == e.key \notin {"param_name", "param_vals", "system_params", "data_names"}
    IN  SelectSeq(self.dict, Data)

\* DataStore._get_data_dict: the attributes of __dict__, in its order, whose
\* name is in data_names
get_data_dict(self) ==
    LET names == GetAttr(self, "data_names").items
        Named(e) == DictHas(names, e.key)
    IN  SelectSeq(self.dict, Named)

Call(op, name, val) == [op |-> op, name |-> name, val |-> val]

\* _serialize without the value_not_none filter
serialize_unfiltered(self) ==
    LET written == get_data_dict(self)
    IN  << Call("create_meta", "", PyDict(get_metadata_dict(self))) >>
        \o [i \in 1..Len(written) |->
               Call("add_dataset", written[i].key, convert_to_ndarray(written[i].val))]

\* DataStore._serialize: the calls made on the writer, in order
serialize(self) ==
    LET written == SelectSeq(get_data_dict(self), value_not_none)
    IN  << Call("create_meta", "", PyDict(get_metadata_dict(self))) >>
        \o [i \in 1..Len(written) |->
               Call("add_dataset", written[i].key, convert_to_ndarray(written[i].val))]

RECURSIVE SetEach(_, _, _)
\* for index, attribute in enumerate(name_list): setattr(self, attribute, data_list[index])
SetEach(self, names, data) ==
    IF names = <<>> THEN Outcome("", self)
    ELSE IF data = <<>> THEN Outcome("IndexError", self)
    ELSE SetEach(SetAttr(self, Head(names), Head(data)), Tail(names), Tail(data))

\* set_from_data that also takes data_names from the name list
set_from_data_refresh(self, meta, names, data) ==
    IF ~DictHas(meta, "param_name") THEN Outcome("KeyError", self)
    ELSE LET s1 == SetAttr(self, "param_name", DictGet(meta, "param_name"))
             m1 == DictPop(meta, "param_name")
         IN  IF ~DictHas(m1, "param_vals") THEN Outcome("KeyError", s1)
             ELSE LET s2 == SetAttr(s1, "param_vals", DictGet(m1, "param_vals"))
                      m2 == DictPop(m1, "param_vals")
                      s3 == SetAttr(s2, "system_params", PyDict(m2))
                      s4 == SetAttr(s3, "data_names", KeysView(DictZip(names, data)))
                  IN  SetEach(s4, names, data)

\* DataStore.set_from_data(self, metadata_dict, name_list, data_list)
set_from_data(self, meta, names, data) ==
    IF ~DictHas(meta, "param_name") THEN Outcome("KeyError", self)
    ELSE LET s1 == SetAttr(self, "param_name", DictGet(meta, "param_name"))
             m1 == DictPop(meta, "param_name")
         IN  IF ~DictHas(m1, "param_vals") THEN Outcome("KeyError", s1)
             ELSE LET s2 == SetAttr(s1, "param_vals", DictGet(m1, "param_vals"))
                      m2 == DictPop(m1, "param_vals")
                      s3 == SetAttr(s2, "system_params", PyDict(m2))
                  IN  SetEach(s3, names, data)

(***************************************************************************)
(* class SpectrumData(DataStore)                                           *)
(***************************************************************************)
\* SpectrumData.__init__(self, param_name, param_vals, energy_table, system_params,
\*                       state_table=None, matrixelem_table=None)
SpectrumDataInit(pn, pv, energy_table, sp, state_table, matrixelem_table) ==
    LET self == DataStoreInit("SpectrumData", pn, pv, sp, <<>>)
    IN  SetAttr(SetAttr(SetAttr(self, "energy_table", energy_table),
                        "state_table", state_table),
                "matrixelem_table", matrixelem_table)

\* the call SpectrumData(param_name=..., param_vals=..., system_params=..., **kwargs):
\* energy_table has no default, and there is no **kwargs to take another name
NewSpectrumData(pn, pv, sp, kwargs) ==
    LET Opt(k) == IF DictHas(kwargs, k) THEN DictGet(kwargs, k) ELSE PyNone
    IN  IF \/ ~DictHas(kwargs, "energy_table")
           \/ ~(KeySet(kwargs) \subseteq {"energy_table", "state_table", "matrixelem_table"})
        THEN Outcome("TypeError", NoObj)
        ELSE Outcome("", SpectrumDataInit(pn, pv, DictGet(kwargs, "energy_table"), sp,
                                          Opt("state_table"), Opt("matrixelem_table")))

\* cls(param_name=..., param_vals=..., system_params=..., **data_dict)
New(cls, pn, pv, sp, kwargs) ==
    IF cls = "SpectrumData" THEN NewSpectrumData(pn, pv, sp, kwargs)
    ELSE NewDataStore(pn, pv, sp, kwargs)

\* _init_from_data that pairs every name with data_list[0]
init_from_data_first(cls, meta, names, data) ==
    IF ~DictHas(meta, "param_name") THEN Outcome("KeyError", NoObj)
    ELSE LET m1 == DictPop(meta, "param_name")
         IN  IF ~DictHas(m1, "param_vals") THEN Outcome("KeyError", NoObj)
             ELSE IF Len(data) < Len(names) THEN Outcome("IndexError", NoObj)
             ELSE New(cls, DictGet(meta, "param_name"), DictGet(m1, "param_vals"),
                      PyDict(DictPop(m1, "param_vals")),
                      DictZip(names, [i \in 1..Len(names) |-> data[1]]))

\* _init_from_data with pop(key, None): a missing key becomes None
init_from_data_default(cls, meta, names, data) ==
    LET Pop(k) == IF DictHas(meta, k) THEN DictGet(meta, k) ELSE PyNone
    IN  IF Len(data) < Len(names) THEN Outcome("IndexError", NoObj)
        ELSE New(cls, Pop("param_name"), Pop("param_vals"),
                 PyDict(DictPop(DictPop(meta, "param_name"), "param_vals")),
                 DictZip(names, data))

\* DataStore._init_from_data(cls, metadata_dict, name_list, data_list)
init_from_data(cls, meta, names, data) ==
    IF ~DictHas(meta, "param_name") THEN Outcome("KeyError", NoObj)
    ELSE LET m1 == DictPop(meta, "param_name")
         IN  IF ~DictHas(m1, "param_vals") THEN Outcome("KeyError", NoObj)
             ELSE IF Len(data) < Len(names) THEN Outcome("IndexError", NoObj)
             ELSE New(cls, DictGet(meta, "param_name"), DictGet(m1, "param_vals"),
                      PyDict(DictPop(m1, "param_vals")), DictZip(names, data))

\* energy_table[i, j] of a two-dimensional array, from 1
At(t, i, j) == t.flat[(i - 1) * t.shape[2] + j]

\* SpectrumData.subtract_ground: energy_table -= energy_table[:, 0].  The right
\* operand has one axis, of length N, which numpy lines up with the LAST axis of
\* the N x M table: the shapes fit when N = M or N = 1, and then entry [i, j]
\* loses ground[j] (ground[0] when N = 1); otherwise the operation raises.
\* The operand is a view of the table: numpy (1.13 and later) computes as if
\* it were a copy.
subtract_ground(self) ==
    LET t == GetAttr(self, "energy_table")
    IN  IF t.kind # "ndarray" THEN Outcome("TypeError", self)
        ELSE IF Len(t.shape) # 2 THEN Outcome("IndexError", self)
        ELSE LET N == t.shape[1]
                 M == t.shape[2]
                 ground == [i \in 1..N |-> At(t, i, 1)]
                 Sub(k) == LET j == ((k - 1) % M) + 1
                           IN  t.flat[k] - ground[IF N = 1 THEN 1 ELSE j]
             IN  IF N = M \/ N = 1
                 THEN Outcome("", SetAttr(self, "energy_table",
                                          NdArray(t.shape, [k \in 1..(N * M) |-> Sub(k)])))
                 ELSE Outcome("ValueError", self)

(***************************************************************************)
(* The inputs.                                                             *)
(***************************************************************************)
\* every sequence without repetition of at most n elements of S
RECURSIVE Arrangements(_, _)
Arrangements(S, n) ==
    IF n = 0 THEN {<<>>}
    ELSE LET shorter == Arrangements(S, n - 1)
         IN  shorter \cup {Append(q, x) : q \in shorter, x \in S}

Distinct(q) == \A i, j \in 1..Len(q) : i # j => q[i] # q[j]

FieldNames == {"x", "y"}

ArrA == NdArray(<<2>>, <<1, 2>>)

ArrB == NdArray(<<2>>, <<3, 4>>)

ListB == PyList(<<3, 4>>)

ArrC == NdArray(<<2>>, <<5, 6>>)

FieldValues == {PyNone, ArrA, ListB}

\* the keyword arguments of a direct construction: named fields in any order
Kwargs ==
    UNION { { [i \in 1..Len(q) |-> Entry(q[i], v[i])] : v \in [1..Len(q) -> FieldValues] }
            : q \in {a \in Arrangements(FieldNames, Cardinality(FieldNames)) : Distinct(a)} }

\* the swept parameter: its name and its values
Sweeps == { <<PyStr("flux"), NdArray(<<2>>, <<0, 1>>)>> }

\* system_params: empty, flat, flat with a key that collides with a fixed
\* field of the metadata record, and with a nested mapping
SystemParams ==
    { PyDict(<<>>),
      PyDict(<< Entry("EJ", PyInt(1)) >>),
      PyDict(<< Entry("EJ", PyInt(1)), Entry("param_name", PyStr("EC")) >>),
      PyDict(<< Entry("EJ", PyInt(1)), Entry("osc", PyDict(<< Entry("EJ", PyInt(2)) >>)) >>) }

\* the N x M table whose row i is the ladder (i-1)*gap + 1, ..., (i-1)*gap + M;
\* Table(2, 3, 3) is [[1, 2, 3], [4, 5, 6]]
Table(N, M, gap) ==
    NdArray(<<N, M>>, [k \in 1..(N * M) |-> ((k - 1) \div M) * gap + ((k - 1) % M) + 1])

Tables == { Table(N, M, gap) : N \in 1..MaxRows, M \in 1..MaxCols, gap \in {MaxGap} }

File(m, n, d) == [exists |-> TRUE, meta |-> m, names |-> n, data |-> d]

NoFile == [exists |-> FALSE, meta |-> <<>>, names |-> <<>>, data |-> <<>>]

\* metadata records of files written elsewhere: complete, and lacking a key
FullMeta ==
    << Entry("param_name", PyStr("ng")), Entry("param_vals", NdArray(<<1>>, <<5>>)),
       Entry("EC", PyInt(3)) >>

NoValsMeta == << Entry("param_name", PyStr("ng")), Entry("EC", PyInt(3)) >>

NoNameMeta == << Entry("param_vals", NdArray(<<1>>, <<5>>)) >>

\* the value a file written elsewhere holds under a name
OtherData(name) == IF name = "energy_table" THEN Table(2, 2, 1) ELSE ArrC

\* name lists of files written elsewhere
OtherNames ==
    { <<"x">>, <<"y", "x">>, <<"z">>, <<"x", "x">>, <<"energy_table">>, <<"param_name">> }

OtherFile(m, n) == File(m, n, [i \in 1..Len(n) |-> OtherData(n[i])])

OtherFiles ==
    { OtherFile(FullMeta, n) : n \in OtherNames }
        \cup { OtherFile(NoValsMeta, <<"x">>), OtherFile(NoNameMeta, <<"x">>) }

Classes == {"DataStore", "SpectrumData"}

\* what the reader returns for what the writer was handed: the one metadata
\* record, and the names and the values of the datasets in the order added
Written(log) ==
    LET sets == Tail(log)
    IN  File(log[1].val.items, [i \in 1..Len(sets) |-> sets[i].name],
             [i \in 1..Len(sets) |-> sets[i].val])

(***************************************************************************)
(* The state machine.  store is the object at hand, file what was last     *)
(* written (or a file from elsewhere), calls the writer calls of the last  *)
(* _serialize, result what the last _init_from_data returned, error the    *)
(* exception the last call raised ("" for none), last the last call.       *)
(* fresh holds while file is what store last wrote and store has not       *)
(* changed since; supplied keeps the names given at construction.          *)
(***************************************************************************)
InitDataStore ==
    \E sw \in Sweeps, sp \in SystemParams, kw \in Kwargs :
        /\ store = NewDataStore(sw[1], sw[2], sp, kw).obj
        /\ supplied = DictKeys(kw)

InitSpectrumData ==
    \E sw \in Sweeps, t \in Tables, st \in {PyNone, ArrA} :
        /\ store = SpectrumDataInit(sw[1], sw[2], t, PyDict(<< Entry("EJ", PyInt(1)) >>), st, PyNone)
        /\ supplied = <<>>

Init ==
    /\ InitDataStore \/ InitSpectrumData
    /\ file = NoFile
    /\ calls = <<>>
    /\ result = NoObj
    /\ error = ""
    /\ last = "__init__"
    /\ fresh = FALSE

\* store._serialize(writer)
Serialize ==
    /\ calls' = serialize(store)
    /\ file' = Written(calls')
    /\ result' = NoObj
    /\ error' = ""
    /\ last' = "_serialize"
    /\ fresh' = TRUE
    /\ UNCHANGED <<store, supplied>>

\* a file written elsewhere takes the place of the one at hand
ReadOther ==
    /\ \E f \in OtherFiles : file' = f
    /\ calls' = <<>>
    /\ result' = NoObj
    /\ error' = ""
    /\ last' = "read"
    /\ fresh' = FALSE
    /\ UNCHANGED <<store, supplied>>

\* store.set_from_data(*reader(file))
SetFromData ==
    /\ file.exists
    /\ LET out == set_from_data(store, file.meta, file.names, file.data)
       IN  /\ store' = out.obj
           /\ error' = out.err
    /\ result' = NoObj
    /\ last' = "set_from_data"
    /\ fresh' = FALSE
    /\ UNCHANGED <<file, calls, supplied>>

\* cls._init_from_data(*reader(file))
InitFromData ==
    /\ file.exists
    /\ \E cls \in Classes :
         LET out == init_from_data(cls, file.meta, file.names, file.data)
         IN  /\ result' = out.obj
             /\ error' = out.err
             /\ last' = IF cls = "DataStore" THEN "DataStore._init_from_data"
                        ELSE "SpectrumData._init_from_data"
    /\ UNCHANGED <<store, file, calls, fresh, supplied>>

\* store.subtract_ground(), while the energies stay within MaxEnergy
SubtractGround ==
    /\ store.cls = "SpectrumData"
    /\ LET t == GetAttr(store, "energy_table")
       IN  \A k \in 1..Len(t.flat) : t.flat[k] \in -MaxEnergy..MaxEnergy
    /\ LET out == subtract_ground(store)
       IN  /\ store' = out.obj
           /\ error' = out.err
    /\ result' = NoObj
    /\ last' = "subtract_ground"
    /\ fresh' = FALSE
    /\ UNCHANGED <<file, calls, supplied>>

Next ==
    \/ Serialize
    \/ ReadOther
    \/ SetFromData
    \/ InitFromData
    \/ SubtractGround

Spec == Init /\ [][Next]_vars

(***************************************************************************)
(* The properties.                                                         *)
(***************************************************************************)
FixedNames == {"param_name", "param_vals", "system_params"}

InitFromDataCalls == {"DataStore._init_from_data", "SpectrumData._init_from_data"}

Range(q) == {q[i] : i \in 1..Len(q)}

\* numpy.array_equal: the same shape and the same entries
ArrayEq(a, b) == a.shape = b.shape /\ a.flat = b.flat

\* the names of the datasets handed to the writer, in the order handed
WrittenNames == [i \in 1..(Len(calls) - 1) |-> calls[i + 1].name]

FlatParams(sp) == \A i \in 1..Len(sp.items) : sp.items[i].val.kind # "dict"

NoCollision(sp) == KeySet(sp.items) \cap {"param_name", "param_vals"} = {}

Present(o) == {n \in DataNameSet(o) : GetAttr(o, n) # PyNone}

\* store is a generic DataStore, file is what it wrote, and
\* DataStore._init_from_data has just been applied to that
RoundTripped == fresh /\ store.cls = "DataStore" /\ last = "DataStore._init_from_data"

\* C1: a generic DataStore with flat system_params that has no key param_name or
\* param_vals, and with no absent data field, comes back from
\* _init_from_data(what _serialize wrote) with equal param_name, param_vals,
\* system_params and data fields, and the same set data_names.
C1_RoundTrip ==
    ( /\ RoundTripped
      /\ FlatParams(GetAttr(store, "system_params"))
      /\ NoCollision(GetAttr(store, "system_params"))
      /\ Present(store) = DataNameSet(store) )
    => /\ error = ""
       /\ result.cls = "DataStore"
       /\ \A k \in FixedNames : GetAttr(result, k) = GetAttr(store, k)
       /\ DataNameSet(result) = DataNameSet(store)
       /\ \A n \in DataNameSet(store) :
              HasAttr(result, n) /\ ArrayEq(GetAttr(result, n), GetAttr(store, n))

C1_Witness ==
    /\ RoundTripped
    /\ error = ""
    /\ GetAttr(store, "system_params") = PyDict(<< Entry("EJ", PyInt(1)) >>)
    /\ DataNames(store) = <<"y", "x">>
    /\ GetAttr(store, "y") = ListB
    /\ GetAttr(store, "x") = ArrA
    /\ GetAttr(result, "y") = ArrB

\* C2 (as claimed): a SpectrumData with an energy_table has it written as a
\* named dataset, and SpectrumData._init_from_data on what was written
\* returns a SpectrumData with an equal energy_table.
C2_SpectrumRoundTrip ==
    ( /\ fresh
      /\ store.cls = "SpectrumData"
      /\ GetAttr(store, "energy_table") # PyNone )
    => /\ "energy_table" \in Range(WrittenNames)
       /\ last = "SpectrumData._init_from_data"
            => /\ error = ""
               /\ result.cls = "SpectrumData"
               /\ ArrayEq(GetAttr(result, "energy_table"), GetAttr(store, "energy_table"))

IsTable(t) == t.kind = "ndarray" /\ Len(t.shape) = 2 /\ t.shape[1] >= 1 /\ t.shape[2] >= 1

\* C3 (as claimed): on every N x M table subtract_ground does not fail, and
\* leaves entry [i][j] at the old [i][j] minus the old [i][0].
C3_SubtractGround ==
    [][ ( /\ last' = "subtract_ground"
          /\ IsTable(GetAttr(store, "energy_table")) )
        => LET old == GetAttr(store, "energy_table")
               new == GetAttr(store', "energy_table")
           IN  /\ error' = ""
               /\ new.shape = old.shape
               /\ \A i \in 1..old.shape[1], j \in 1..old.shape[2] :
                      At(new, i, j) = At(old, i, j) - At(old, i, 1) ]_vars

C5_AllOrNothing ==
    [][ (last' = "set_from_data" /\ error' = "KeyError") => store' = store ]_vars

\* C6: _init_from_data on a metadata dict that lacks param_name or param_vals
\* ends in a missing-key error and returns no object.
C6_MissingKey ==
    ( /\ last \in InitFromDataCalls
      /\ ~(DictHas(file.meta, "param_name") /\ DictHas(file.meta, "param_vals")) )
    => error = "KeyError" /\ result = NoObj

C6_Witness ==
    /\ last = "DataStore._init_from_data"
    /\ file.meta = NoValsMeta
    /\ error = "KeyError"
    /\ result = NoObj

\* C7: a data field of a DataStore that is None is not handed to the writer
\* and stays in data_names; _init_from_data on what was written succeeds and
\* returns an object without that attribute and without that name in
\* data_names, the other data fields being reconstructed.
C7_AbsentOmitted ==
    (fresh /\ store.cls = "DataStore")
    => \A n \in Range(supplied) :
         (HasAttr(store, n) /\ GetAttr(store, n) = PyNone)
         => /\ n \notin Range(WrittenNames)
            /\ n \in DataNameSet(store)
            /\ last = "DataStore._init_from_data"
                 => /\ error = ""
                    /\ ~HasAttr(result, n)
                    /\ n \notin DataNameSet(result)
                    /\ \A m \in Present(store) :
                           /\ HasAttr(result, m)
                           /\ m \in DataNameSet(result)
                           /\ ArrayEq(GetAttr(result, m), GetAttr(store, m))

C7_Witness ==
    /\ RoundTripped
    /\ DataNames(store) = <<"x", "y">>
    /\ GetAttr(store, "x") = PyNone
    /\ GetAttr(store, "y") = ListB
    /\ error = ""
    /\ DataNames(result) = <<"y">>
    /\ ~HasAttr(result, "x")

\* C8: _serialize calls create_meta once, first, and then add_dataset once for
\* each name of data_names whose value is not None, in the order of data_names.
C8_WriteOrder ==
    fresh
    => /\ Len(calls) >= 1
       /\ calls[1].op = "create_meta"
       /\ \A i \in 2..Len(calls) : calls[i].op = "add_dataset"
       /\ Distinct(WrittenNames)
       /\ LET NotNone(n) == GetAttr(store, n) # PyNone
          IN  WrittenNames = SelectSeq(DataNames(store), NotNone)

\* y holds the value only a file written elsewhere gives, whose name list is y, x
C8_Witness ==
    /\ fresh
    /\ last = "_serialize"
    /\ DataNames(store) = <<"x", "y">>
    /\ GetAttr(store, "y") = ArrC
    /\ WrittenNames = <<"x", "y">>

Rebound == FixedNames \cup Range(file.names)

\* the value set_from_data binds under name k: the last dataset of that name
\* or, for a fixed field not in the name list, what the metadata record holds
Bound(k) ==
    IF k \in Range(file.names)
    THEN file.data[CHOOSE i \in 1..Len(file.names) :
                       /\ file.names[i] = k
                       /\ \A j \in (i + 1)..Len(file.names) : file.names[j] # k]
    ELSE IF k = "system_params"
    THEN PyDict(DictPop(DictPop(file.meta, "param_name"), "param_vals"))
    ELSE DictGet(file.meta, k)

====
